---- MODULE Spec2Model ----
(***************************************************************************)
(* A model of recon.py: root DNS queries, candidate collection (built-in   *)
(* list or wordlist, plus crt.sh), the sorted resolution loop with its     *)
(* liveness filter and optional HTTP probe, and the assembled results.     *)
(* Strings are TLA+ strings, handled a character at a time, so that        *)
(* strip/lower/startswith/endswith/splitlines/sorted do what Python does.  *)
(***************************************************************************)
EXTENDS Integers, Sequences, FiniteSets, TLC

VARIABLES
    domain,       \* main: domain (normalised, line 104)
    wordlist,     \* args.wordlist and what open()/iteration of the file gives
    no_crt,       \* args.no_crt
    probe,        \* args.probe
    pc,           \* position of main
    i,            \* index of the next call inside the current phase
    root,         \* results["root"] while and after it is built
    candidates,   \* main: candidates
    todo,         \* the part of sorted(candidates) not yet iterated
    rec,          \* resolve_host: the mapping being built for Head(todo)
    http,         \* http_probe: results, as (key, value) pairs in insertion order
    subdomains,   \* results["subdomains"], as (host, entry) pairs in insertion order
    queries,      \* every resolver.resolve(name, rtype) call issued so far
    ctRequests,   \* number of requests.get calls to crt.sh so far
    probes,       \* every requests.head call issued so far
    resolved,     \* what resolve_host returned, per host it was called for
    crtReturned,  \* what fetch_crtsh returned
    crtFailure,   \* which failure, if any, fetch_crtsh met
    answered      \* number of DNS queries answered with records so far

vars == <<domain, wordlist, no_crt, probe, pc, i, root, candidates, todo, rec,
          http, subdomains, queries, ctRequests, probes, resolved,
          crtReturned, crtFailure, answered>>

-----------------------------------------------------------------------------
(* Bounds of the model *)

\* the DNS environment answers at most this many queries with records
MaxAnswers == 2
\* how many leading entries of DEFAULT_SUBS are enumerated
BuiltinTake == 1
\* the longest crt.sh JSON array
MaxRows == 2

-----------------------------------------------------------------------------
(* Python str operations *)

Lower == "abcdefghijklmnopqrstuvwxyz"
Upper == "ABCDEFGHIJKLMNOPQRSTUVWXYZ"
Digits == "0123456789"
Whitespace == {" ", "\t", "\n", "\r"}

CharAt(s, k) == SubSeq(s, k, k)

IndexIn(c, s) ==
    IF \E k \in 1..Len(s) : CharAt(s, k) = c
    THEN CHOOSE k \in 1..Len(s) : CharAt(s, k) = c
    ELSE 0

\* the code point of a character
Ord(c) ==
    IF IndexIn(c, Lower) > 0 THEN 96 + IndexIn(c, Lower)
    ELSE IF IndexIn(c, Upper) > 0 THEN 64 + IndexIn(c, Upper)
    ELSE IF IndexIn(c, Digits) > 0 THEN 47 + IndexIn(c, Digits)
    ELSE CASE c = "\t" -> 9
           [] c = "\n" -> 10
           [] c = "\r" -> 13
           [] c = " " -> 32
           [] c = "#" -> 35
           [] c = "*" -> 42
           [] c = "-" -> 45
           [] c = "." -> 46

\* a < b on str: code-point lexicographic order
StrLess(a, b) ==
    \E k \in 1..Len(b) :
        /\ k <= Len(a) + 1
        /\ SubSeq(a, 1, k - 1) = SubSeq(b, 1, k - 1)
        /\ \/ k = Len(a) + 1
           \/ /\ k <= Len(a)
              /\ Ord(CharAt(a, k)) < Ord(CharAt(b, k))

LowerChar(c) ==
    IF IndexIn(c, Upper) > 0 THEN CharAt(Lower, IndexIn(c, Upper)) ELSE c

RECURSIVE lower(_)
lower(s) == IF s = "" THEN "" ELSE LowerChar(CharAt(s, 1)) \o lower(SubSeq(s, 2, Len(s)))

RECURSIVE lstrip(_)
lstrip(s) ==
    IF s /= "" /\ CharAt(s, 1) \in Whitespace THEN lstrip(SubSeq(s, 2, Len(s))) ELSE s

RECURSIVE rstrip(_)
rstrip(s) ==
    IF s /= "" /\ CharAt(s, Len(s)) \in Whitespace
    THEN rstrip(SubSeq(s, 1, Len(s) - 1)) ELSE s

strip(s) == rstrip(lstrip(s))

RECURSIVE rstripDot(_)
rstripDot(s) ==
    IF s /= "" /\ CharAt(s, Len(s)) = "."
    THEN rstripDot(SubSeq(s, 1, Len(s) - 1)) ELSE s

startswith(s, p) == Len(s) >= Len(p) /\ SubSeq(s, 1, Len(p)) = p

endswith(s, p) == Len(s) >= Len(p) /\ SubSeq(s, Len(s) - Len(p) + 1, Len(s)) = p

RECURSIVE splitlines(_)
splitlines(s) ==
    IF s = "" THEN <<>>
    ELSE LET k == IndexIn("\n", s) IN
         IF k = 0 THEN <<s>>
         ELSE <<SubSeq(s, 1, k - 1)>> \o splitlines(SubSeq(s, k + 1, Len(s)))

Contains(s, c) == IndexIn(c, s) > 0

Range(q) == {q[k] : k \in 1..Len(q)}

\* the set iterated without sorting: here, largest first
RECURSIVE unsorted(_)
unsorted(S) ==
    IF S = {} THEN <<>>
    ELSE LET m == CHOOSE x \in S : \A y \in S \ {x} : StrLess(y, x)
         IN <<m>> \o unsorted(S \ {m})

\* sorted(S) for a set of str
RECURSIVE sorted(_)
sorted(S) ==
    IF S = {} THEN <<>>
    ELSE LET m == CHOOSE x \in S : \A y \in S \ {x} : StrLess(x, y)
         IN <<m>> \o sorted(S \ {m})

-----------------------------------------------------------------------------
(* Python dict, where only membership and value matter *)

EmptyDict == [k \in {} |-> <<>>]

\* d[k] = v on a dict kept as (key, value) pairs in insertion order
DictSet(d, k, v) ==
    IF \E n \in 1..Len(d) : d[n][1] = k
    THEN [n \in 1..Len(d) |-> IF d[n][1] = k THEN <<k, v>> ELSE d[n]]
    ELSE Append(d, <<k, v>>)

DictKeys(d) == [n \in 1..Len(d) |-> d[n][1]]

-----------------------------------------------------------------------------
(* The program's constants and pure functions *)

DEFAULT_SUBS ==
    << "www", "mail", "owa", "vpn", "remote", "portal", "admin", "api", "dev",
       "test", "stage", "staging", "prod", "beta", "static", "cdn", "assets",
       "blog", "docs", "help", "support", "ns1", "ns2", "autodiscover", "m",
       "webmail", "smtp", "imap", "pop", "ftp", "git", "jira", "confluence" >>

\* a dns_query that reports the exception instead of returning []
dns_query_reporting(out) ==
    IF out.ok THEN [n \in 1..Len(out.answers) |-> strip(out.answers[n])]
    ELSE <<"ERR">>

\* dns_query: what one resolver.resolve call comes to. out.ok = FALSE is any
\* exception of the call (timeout, NXDOMAIN, NoAnswer, SERVFAIL, ...).
dns_query(out) ==
    IF out.ok THEN [n \in 1..Len(out.answers) |-> strip(out.answers[n])] ELSE <<>>

\* a resolve_host that also asks for MX
HostQueriesWithMx ==
    << <<"A", "A">>, <<"AAAA", "AAAA">>, <<"CNAME", "CNAME">>, <<"TXT", "TXT">>,
       <<"MX", "MX">> >>

\* a resolve_host whose AAAA entry asks for A again
HostQueriesRepeatA ==
    << <<"A", "A">>, <<"AAAA", "A">>, <<"CNAME", "CNAME">>, <<"TXT", "TXT">> >>

\* resolve_host: the (key, record type) pairs of its dict literal, in order
HostQueries ==
    << <<"A", "A">>, <<"AAAA", "AAAA">>, <<"CNAME", "CNAME">>, <<"TXT", "TXT">> >>

\* main: the (key, record type) pairs of results["root"], in order
RootQueries ==
    << <<"NS", "NS">>, <<"MX", "MX">>, <<"SOA", "SOA">>,
       <<"TXT", "TXT">>, <<"A", "A">>, <<"AAAA", "AAAA">> >>

\* a has_any that counts TXT as well
LiveKeysWithTxt == <<"A", "AAAA", "CNAME", "TXT">>

\* main: the keys has_any looks at
LiveKeys == <<"A", "AAAA", "CNAME">>

has_any(r) == \E n \in 1..Len(LiveKeys) : r[LiveKeys[n]] /= <<>>

\* an http_probe that tries plain http first
SchemesHttpFirst == <<"http", "https">>

\* http_probe: the schemes tried, in order
Schemes == <<"https", "http">>

\* http_probe: the value stored for one requests.head call
ProbeResult(out) ==
    IF out.ok THEN out.status \o " -> " \o out.url ELSE "ERR (" \o out.error \o ")"

\* fetch_crtsh: one line of a name_value, normalised (lines 59-61)
NormaliseName(line) ==
    LET name == lower(strip(line))
    IN IF startswith(name, "*.") THEN SubSeq(name, 3, Len(name)) ELSE name

\* fetch_crtsh: the subtree filter (line 62)
InSubtree(name, d) == endswith(name, "." \o lower(d)) \/ name = lower(d)

\* fetch_crtsh: the names one row adds (lines 56-63)
RowNames(row, d) ==
    LET nv == IF row.has_nv THEN row.name_value ELSE ""
        lines == splitlines(nv)
    IN {x \in {NormaliseName(lines[n]) : n \in 1..Len(lines)} : InSubtree(x, d)}

\* fetch_crtsh: the loop over the parsed rows; a row that is no object makes
\* row.get raise, which ends the loop with what was added before it
RECURSIVE ProcessRows(_, _, _)
ProcessRows(rows, subs, d) ==
    IF rows = <<>> THEN [subs |-> subs, failure |-> "none"]
    ELSE IF ~Head(rows).obj THEN [subs |-> subs, failure |-> "row"]
    ELSE ProcessRows(Tail(rows), subs \cup RowNames(Head(rows), d), d)

\* fetch_crtsh: the returned set, and which failure it met
fetch_crtsh(d, resp) ==
    IF resp.kind = "exception" THEN [subs |-> {}, failure |-> "request"]
    ELSE IF resp.status /= "200" THEN [subs |-> {}, failure |-> "status"]
    ELSE IF ~resp.json THEN [subs |-> {}, failure |-> "json"]
    ELSE ProcessRows(resp.data, {}, d)

\* load_wordlist: the kept lines of a readable file
RECURSIVE load_wordlist(_)
load_wordlist(lines) ==
    IF lines = <<>> THEN <<>>
    ELSE LET s == strip(Head(lines)) IN
         IF s = "" \/ startswith(s, "#") THEN load_wordlist(Tail(lines))
         ELSE <<s>> \o load_wordlist(Tail(lines))

\* main: the normalised target (line 104)
NormaliseDomain(raw) == rstripDot(lower(strip(raw)))

\* main: the candidates built from the base list (lines 122-123)
BaseCandidates(base, d) == {base[n] \o "." \o d : n \in 1..Len(base)}

\* main: the entry stored for a live host (lines 136-139)
Entry(r, h, probing) ==
    IF probing THEN [records |-> r, http |-> h] ELSE [records |-> r]

-----------------------------------------------------------------------------
(* Inputs and environment *)

DomainArgs == {"ex.io", " EX.io. "}

WordlistArgs ==
    { [given |-> FALSE, readable |-> FALSE, lines |-> <<>>],
      [given |-> TRUE, readable |-> FALSE, lines |-> <<>>],
      [given |-> TRUE, readable |-> TRUE,
       lines |-> <<" WWW\n", "# staging hosts\n", "\n">>] }

CtRows ==
    { [obj |-> TRUE, has_nv |-> TRUE, name_value |-> "EX.IO\n *.*.ex.io"],
      [obj |-> TRUE, has_nv |-> TRUE, name_value |-> "mail.evil.org\n"],
      [obj |-> TRUE, has_nv |-> FALSE, name_value |-> ""],
      [obj |-> FALSE, has_nv |-> FALSE, name_value |-> ""] }

RECURSIVE SeqsUpTo(_, _)
SeqsUpTo(S, n) ==
    IF n = 0 THEN {<<>>}
    ELSE SeqsUpTo(S, n - 1)
         \cup {Append(q, x) : q \in {r \in SeqsUpTo(S, n - 1) : Len(r) = n - 1}, x \in S}

CtResponses ==
    { [kind |-> "exception", status |-> "", json |-> FALSE, data |-> <<>>],
      [kind |-> "http", status |-> "503", json |-> FALSE, data |-> <<>>],
      [kind |-> "http", status |-> "200", json |-> FALSE, data |-> <<>>] }
    \cup { [kind |-> "http", status |-> "200", json |-> TRUE, data |-> rows] :
             rows \in SeqsUpTo(CtRows, MaxRows) }

DnsOutcomes(n) ==
    { [ok |-> FALSE, answers |-> <<>>] }
    \cup (IF n < MaxAnswers THEN { [ok |-> TRUE, answers |-> <<"192.0.2.1 ">>] } ELSE {})

HttpOutcomes(url) ==
    { [ok |-> TRUE, status |-> "200", url |-> url \o "/", error |-> ""],
      [ok |-> FALSE, status |-> "", url |-> "", error |-> "ConnectionError"] }

-----------------------------------------------------------------------------
(* main, one step per external call *)

Init ==
    /\ \E raw \in DomainArgs : domain = NormaliseDomain(raw)
    /\ wordlist \in WordlistArgs
    /\ no_crt \in BOOLEAN
    /\ probe \in BOOLEAN
    /\ pc = "root"
    /\ i = 1
    /\ root = EmptyDict
    /\ candidates = {}
    /\ todo = <<>>
    /\ rec = EmptyDict
    /\ http = <<>>
    /\ subdomains = <<>>
    /\ queries = <<>>
    /\ ctRequests = 0
    /\ probes = <<>>
    /\ resolved = EmptyDict
    /\ crtReturned = {}
    /\ crtFailure = "none"
    /\ answered = 0

Count(out) == IF out.ok THEN 1 ELSE 0

\* where the loop goes once it has iterated over `rest`
LoopPc(rest) == IF rest = <<>> THEN "report" ELSE "resolve"

\* lines 108-115: one dns_query(domain, rtype) of results["root"]
RootQuery ==
    /\ pc = "root"
    /\ \E out \in DnsOutcomes(answered) :
        /\ root' = root @@ (RootQueries[i][1] :> dns_query(out))
        /\ queries' = Append(queries,
               [name |-> domain, rtype |-> RootQueries[i][2], phase |-> "root",
                ok |-> out.ok])
        /\ answered' = answered + Count(out)
    /\ IF i = Len(RootQueries)
       THEN pc' = "collect" /\ i' = 1
       ELSE pc' = pc /\ i' = i + 1
    /\ UNCHANGED <<domain, wordlist, no_crt, probe, candidates, todo, rec, http,
                   subdomains, ctRequests, probes, resolved, crtReturned, crtFailure>>

\* line 121: open() raises, nothing catches it, main ends with the exception
LoadWordlistFails ==
    /\ pc = "collect"
    /\ wordlist.given /\ ~wordlist.readable
    /\ pc' = "aborted"
    /\ UNCHANGED <<domain, wordlist, no_crt, probe, i, root, candidates, todo, rec,
                   http, subdomains, queries, ctRequests, probes, resolved,
                   crtReturned, crtFailure, answered>>

\* lines 118-123 (and line 130 when crt.sh is disabled)
BuildCandidates ==
    /\ pc = "collect"
    /\ ~(wordlist.given /\ ~wordlist.readable)
    /\ LET base == IF wordlist.given THEN load_wordlist(wordlist.lines)
                   ELSE SubSeq(DEFAULT_SUBS, 1, BuiltinTake)
           cands == BaseCandidates(base, domain)
       IN /\ candidates' = cands
          /\ IF no_crt
             THEN todo' = sorted(cands) /\ pc' = LoopPc(todo')
             ELSE todo' = todo /\ pc' = "crt"
    /\ UNCHANGED <<domain, wordlist, no_crt, probe, i, root, rec, http, subdomains,
                   queries, ctRequests, probes, resolved, crtReturned, crtFailure,
                   answered>>

\* lines 126-127 and 130: fetch_crtsh(domain), the union, sorted(candidates)
FetchCrtsh ==
    /\ pc = "crt"
    /\ \E resp \in CtResponses :
        LET r == fetch_crtsh(domain, resp) IN
        /\ crtReturned' = r.subs
        /\ crtFailure' = r.failure
        /\ candidates' = candidates \cup r.subs
    /\ ctRequests' = ctRequests + 1
    /\ todo' = sorted(candidates')
    /\ pc' = LoopPc(todo')
    /\ UNCHANGED <<domain, wordlist, no_crt, probe, i, root, rec, http, subdomains,
                   queries, probes, resolved, answered>>

\* line 131: one dns_query(host, rtype) of resolve_host(host)
ResolveQuery ==
    /\ pc = "resolve"
    /\ LET host == Head(todo) IN
       \E out \in DnsOutcomes(answered) :
        /\ rec' = rec @@ (HostQueries[i][1] :> dns_query(out))
        /\ queries' = Append(queries,
               [name |-> host, rtype |-> HostQueries[i][2], phase |-> "loop",
                ok |-> out.ok])
        /\ answered' = answered + Count(out)
        /\ IF i = Len(HostQueries)
           THEN pc' = "filter" /\ i' = 1 /\ resolved' = resolved @@ (host :> rec')
           ELSE pc' = pc /\ i' = i + 1 /\ resolved' = resolved
    /\ UNCHANGED <<domain, wordlist, no_crt, probe, root, candidates, todo, http,
                   subdomains, ctRequests, probes, crtReturned, crtFailure>>

\* lines 132-134: not has_any, continue
SkipHost ==
    /\ pc = "filter"
    /\ ~has_any(rec)
    /\ todo' = Tail(todo)
    /\ rec' = EmptyDict
    /\ pc' = LoopPc(todo')
    /\ UNCHANGED <<domain, wordlist, no_crt, probe, i, root, candidates, http,
                   subdomains, queries, ctRequests, probes, resolved, crtReturned,
                   crtFailure, answered>>

\* lines 132-137: has_any, the entry is started
KeepHost ==
    /\ pc = "filter"
    /\ has_any(rec)
    /\ pc' = IF probe THEN "probe" ELSE "store"
    /\ UNCHANGED <<domain, wordlist, no_crt, probe, i, root, candidates, todo, rec,
                   http, subdomains, queries, ctRequests, probes, resolved,
                   crtReturned, crtFailure, answered>>

\* line 138: one requests.head of http_probe(host)
ProbeScheme ==
    /\ pc = "probe"
    /\ LET host == Head(todo)
           scheme == Schemes[i]
           url == scheme \o "://" \o host
       IN \E out \in HttpOutcomes(url) :
            /\ http' = DictSet(http, scheme, ProbeResult(out))
            /\ probes' = Append(probes, [scheme |-> scheme, host |-> host, ok |-> out.ok])
    /\ IF i = Len(Schemes)
       THEN pc' = "store" /\ i' = 1
       ELSE pc' = pc /\ i' = i + 1
    /\ UNCHANGED <<domain, wordlist, no_crt, probe, root, candidates, todo, rec,
                   subdomains, queries, ctRequests, resolved, crtReturned, crtFailure,
                   answered>>

\* line 139: results["subdomains"][host] = entry, and the next iteration
StoreEntry ==
    /\ pc = "store"
    /\ subdomains' = DictSet(subdomains, Head(todo), Entry(rec, http, probe))
    /\ todo' = Tail(todo)
    /\ rec' = EmptyDict
    /\ http' = <<>>
    /\ pc' = LoopPc(todo')
    /\ UNCHANGED <<domain, wordlist, no_crt, probe, i, root, candidates, queries,
                   ctRequests, probes, resolved, crtReturned, crtFailure, answered>>

\* lines 141-169: the summary is printed (and the JSON written), return 0
Report ==
    /\ pc = "report"
    /\ pc' = "done"
    /\ UNCHANGED <<domain, wordlist, no_crt, probe, i, root, candidates, todo, rec,
                   http, subdomains, queries, ctRequests, probes, resolved,
                   crtReturned, crtFailure, answered>>

Next ==
    \/ RootQuery
    \/ LoadWordlistFails
    \/ BuildCandidates
    \/ FetchCrtsh
    \/ ResolveQuery
    \/ SkipHost
    \/ KeepHost
    \/ ProbeScheme
    \/ StoreEntry
    \/ Report

Spec == Init /\ [][Next]_vars

-----------------------------------------------------------------------------
(* Properties *)

Listed(h) == \E n \in 1..Len(subdomains) : subdomains[n][1] = h

AddressTypes == {"A", "AAAA", "CNAME"}

Live(r) == \E k \in AddressTypes : r[k] /= <<>>

IsPrefix(p, q) == Len(p) <= Len(q) /\ SubSeq(q, 1, Len(p)) = p

PairOf(q) == <<q.name, q.rtype>>

LoopQuery(q) == q.phase = "loop"

SamePair(p, q) == p.rtype = q.rtype /\ p.name = q.name

\* C1: at the end of a run, a candidate is a key of results["subdomains"] if and
\* only if resolve_host returned a non-empty list for A, AAAA or CNAME; TXT alone,
\* or nothing at all, leaves it out.
C1_ListedIffLive ==
    pc = "done" =>
        /\ \A h \in candidates :
            /\ h \in DOMAIN resolved
            /\ Listed(h) <=> Live(resolved[h])
        /\ \A n \in 1..Len(subdomains) : subdomains[n][1] \in candidates

\* a run ended with a TXT-only candidate left out and another candidate listed
C1_Witness ==
    /\ pc = "done"
    /\ \E h \in candidates :
        /\ resolved[h]["TXT"] /= <<>>
        /\ ~Live(resolved[h])
        /\ ~Listed(h)
    /\ \E h \in candidates : Listed(h) /\ Live(resolved[h])

\* C2: in every state, the keys of results["subdomains"] are, in insertion order,
\* strictly ascending in code-point lexical order.
C2_KeysAscending ==
    \A m, n \in 1..Len(subdomains) :
        m < n => StrLess(subdomains[m][1], subdomains[n][1])

\* two live hosts are listed, one of them with upper-case letters
C2_Witness ==
    /\ Len(subdomains) >= 2
    /\ \E n \in 1..Len(subdomains) : subdomains[n][1] /= lower(subdomains[n][1])

\* C3: when the wordlist cannot be read, the run aborts before any network
\* activity: no DNS query, no CT request and no HTTP probe has been issued.
C3_AbortBeforeNetwork ==
    pc = "aborted" => queries = <<>> /\ ctRequests = 0 /\ probes = <<>>

\* C4: on any network or parse failure, also one met while iterating the rows,
\* fetch_crtsh returns an empty set.
C4_EmptyOnFailure ==
    crtFailure /= "none" => crtReturned = {}

\* C5: every name fetch_crtsh returns is the domain or ends with "." + domain,
\* and none contains a wildcard marker.
C5_SubtreeNoWildcard ==
    \A name \in crtReturned :
        /\ name = domain \/ endswith(name, "." \o domain)
        /\ ~Contains(name, "*")

\* the value the program holds for the n-th issued query
StoredFor(n) ==
    LET q == queries[n] IN
    IF q.phase = "root" THEN root[q.rtype]
    ELSE IF q.name \in DOMAIN resolved THEN resolved[q.name][q.rtype]
    ELSE rec[q.rtype]

\* the (name, record type) pairs issued so far in one phase
PairsOf(phase) ==
    {PairOf(queries[n]) : n \in {k \in 1..Len(queries) : queries[k].phase = phase}}

IsStrList(v) == \E n \in 0..Len(v) : DOMAIN v = 1..n /\ \A k \in 1..n : v[k] \in STRING

ProbesOf(h) ==
    LET ofHost(p) == p.host = h
        sel == SelectSeq(probes, ofHost)
    IN [n \in 1..Len(sel) |-> sel[n].scheme]

\* C7: a host is probed only when probing was requested and after it was found
\* live; with probing every entry has "http" with exactly the keys https, http in
\* that order, both tried whatever the https attempt gave; without probing
\* nothing is probed and no entry has "http".
C7_ProbeGatedComplete ==
    /\ \A n \in 1..Len(probes) :
        /\ probe
        /\ probes[n].host \in DOMAIN resolved
        /\ Live(resolved[probes[n].host])
    /\ \A h \in candidates : IsPrefix(ProbesOf(h), <<"https", "http">>)
    /\ \A n \in 1..Len(subdomains) :
        LET h == subdomains[n][1]
            e == subdomains[n][2]
        IN IF probe
           THEN /\ "http" \in DOMAIN e
                /\ DictKeys(e.http) = <<"https", "http">>
                /\ ProbesOf(h) = <<"https", "http">>
           ELSE "http" \notin DOMAIN e
    /\ ~probe => probes = <<>>

\* an entry was stored whose https attempt failed and whose http attempt succeeded
C7_Witness ==
    \E n \in 1..Len(subdomains) :
        /\ "http" \in DOMAIN subdomains[n][2]
        /\ startswith(subdomains[n][2].http[1][2], "ERR")
        /\ startswith(subdomains[n][2].http[2][2], "200")

\* C8: every DNS query issued for a candidate in the resolution loop has record
\* type A, AAAA or CNAME (TXT, NS, MX and SOA are asked of the root only).
C8_LoopAddressTypesOnly ==
    \A n \in 1..Len(queries) :
        LoopQuery(queries[n]) => queries[n].rtype \in AddressTypes

\* C8 as amended: NS, MX and SOA are asked of the root domain only; a candidate in
\* the resolution loop is asked for A, AAAA, CNAME and TXT, and nothing else.
C8_LoopTypes ==
    /\ \A n \in 1..Len(queries) :
        /\ LoopQuery(queries[n]) => queries[n].rtype \in {"A", "AAAA", "CNAME", "TXT"}
        /\ queries[n].rtype \in {"NS", "MX", "SOA"} =>
               queries[n].phase = "root" /\ queries[n].name = domain
    /\ \A h \in DOMAIN resolved :
        {queries[n].rtype : n \in {k \in 1..Len(queries) :
                                     LoopQuery(queries[k]) /\ queries[k].name = h}}
            = {"A", "AAAA", "CNAME", "TXT"}

\* TXT was asked of a proper subdomain in the loop, and answered
C8_Witness ==
    \E n \in 1..Len(queries) :
        /\ LoopQuery(queries[n])
        /\ queries[n].rtype = "TXT"
        /\ queries[n].ok
        /\ queries[n].name /= domain

\* C9: every hostname handed to resolve_host is lower-cased and is the domain or
\* ends with "." + domain.
C9_CandidatesNormalised ==
    \A n \in 1..Len(queries) :
        LoopQuery(queries[n]) =>
            /\ queries[n].name = lower(queries[n].name)
            /\ queries[n].name = domain \/ endswith(queries[n].name, "." \o domain)

\* C10: no (hostname, record type) DNS query is issued more than once in a run.
C10_NoQueryTwice ==
    \A n \in 1..Len(queries) : \A m \in 1..(n - 1) : ~SamePair(queries[m], queries[n])

\* C10 as amended: no query is retried, whether or not it failed. A (hostname,
\* record type) pair is issued at most once for the root and at most once in the
\* loop; the pairs issued twice are the domain's A, AAAA and TXT, and only when
\* crt.sh returned the domain itself.
C10_NoRetry ==
    \A n \in 1..Len(queries) : \A m \in 1..(n - 1) :
        SamePair(queries[m], queries[n]) =>
            /\ queries[m].phase = "root"
            /\ queries[n].phase = "loop"
            /\ queries[n].name = domain
            /\ domain \in crtReturned
            /\ queries[n].rtype \in {"A", "AAAA", "TXT"}

\* a run ended in which a loop query failed and a root query was issued again
\* for the candidate that crt.sh returned
C10_Witness ==
    /\ pc = "done"
    /\ \E n \in 1..Len(queries) : LoopQuery(queries[n]) /\ ~queries[n].ok
    /\ \E m, n \in 1..Len(queries) :
        m < n /\ SamePair(queries[m], queries[n]) /\ ~queries[m].ok

====
